---- MODULE Spec2Model ----
(***************************************************************************)
(* Word alignment and scoring engine of the pronunciation app              *)
(* (server/levenshteinAnalysis.ts): calculateWordSimilarity, alignWords    *)
(* and calculateLevenshteinScores.                                         *)
(*                                                                         *)
(* A text or a token is a sequence of strings, one per UTF-16 code unit,    *)
(* which is the unit String.length and fast-levenshtein work on; a code    *)
(* unit outside ASCII is named by its four hexadecimal digits.             *)
(* Indices are 1-based here and 0-based in the source.                     *)
(***************************************************************************)
EXTENDS Integers, Sequences, FiniteSets

\* ---------------------------------------------------------------- bounds
MaxRefLen == 2
MaxSpokenLen == 2
MaxTokLen == 4
MaxTextLen == 3
MaxPermLen == 3
MaxReplyLen == 5
LongLen == 201
MaxRequests == 2

\* Characters of the tokens given to calculateWordSimilarity on its own.
Alphabet == {"a", "b"}

\* Tokens of the sentences given to calculateLevenshteinScores. Their
\* pairwise similarities are 0, 25, 33, 50, 67, 75 and 100.
Vocab ==
  { <<"a">>, <<"b">>, <<"a", "b">>, <<"a", "b", "c">>, <<"a", "b", "c", "d">> }

\* Code units of the texts given to splitIntoWords on its own: a capital
\* and a small Latin letter, the combining caron U+030C, the precomposed
\* small j with caron U+01F0, a space and a comma.
NormChars == {"J", "j", "030C", "01F0", " ", ","}

\* Tokens of the documented examples. Hindi: main, aaj, bazaar (with the
\* nukta as a combining mark) and bazaari. Kannada: indu, beligge and ide.
MAIN == << "092E", "0948", "0902" >>

AAJ == << "0906", "091C" >>

BAZAAR == << "092C", "093E", "091C", "093C", "093E", "0930" >>

BAZAARI == << "092C", "093E", "091C", "093E", "0930", "0940" >>

INDU == << "0C87", "0C82", "0CA6", "0CC1" >>

BELIGGE == << "0CAC", "0CC6", "0CB3", "0CBF", "0C97", "0CCD", "0C97", "0CC6" >>

IDE == << "0C87", "0CA6", "0CC6" >>

SP == << " " >>

\* Texts given to calculateLevenshteinScores as a whole.
Scenario1Ref == MAIN \o SP \o AAJ \o SP \o BAZAAR \o << "0964" >>

Scenario1Spoken == AAJ \o SP \o MAIN \o SP \o BAZAARI

Scenario2Ref == << "a", " ", "b", " ", "c" >>

Scenario2Spoken == << "x", " ", "y" >>

HelloText == << "H", "e", "l", "l", "o", "!" >>

Scenario4Ref == INDU \o SP \o BELIGGE

Scenario4Spoken == INDU \o << "000A" >> \o IDE

\* bazaar written with the precomposed ja-with-nukta U+095B.
BazaarPrecomposed == << "092C", "093E", "095B", "093E", "0930" >>

\* Texts that spell the two markers of alignWords as a word.
ExtraAsText == << "(", "e", "x", "t", "r", "a", ")" >>

MissingAsText == << "(", "m", "i", "s", "s", "i", "n", "g", ")" >>

ScenarioTexts ==
  { << >>, Scenario1Ref, Scenario1Spoken, Scenario2Ref, Scenario2Spoken,
    HelloText, Scenario4Ref, Scenario4Spoken, BAZAAR, BazaarPrecomposed,
    << "01F0", ",", " ", "W" >>, << "j", "030C", " ", "w" >>,
    ExtraAsText, MissingAsText }

SeqsUpTo(S, n) == UNION { [1..k -> S] : k \in 0..n }

\* Tokens long enough for one edit to round to a similarity of 100: a run of
\* one letter, and the same run with another letter at either of two
\* neighbouring places.
LongWord == [k \in 1..LongLen |-> "a"]

LongWordX == [LongWord EXCEPT ![LongLen \div 2] = "b"]

LongWordY == [LongWord EXCEPT ![(LongLen \div 2) + 1] = "b"]

\* Tokens of the sentences whose words are spoken in another order.
PermVocab == { << "a" >>, << "a", "a" >>, LongWord, LongWordX, LongWordY }

\* The sequences that hold the tokens of s in some order.
PermutationsOf(s) ==
  { [i \in 1..Len(s) |-> s[p[i]]] :
      p \in { q \in [1..Len(s) -> 1..Len(s)] :
                \A i, k \in 1..Len(s) : i # k => q[i] # q[k] } }

\* ------------------------------------------------------------- constants
MIN_SIMILARITY_THRESHOLD == 30

EXTRA == <<"(", "e", "x", "t", "r", "a", ")">>

MISSING == <<"(", "m", "i", "s", "s", "i", "n", "g", ")">>

VARIABLES
  pc,               \* position in calculateLevenshteinScores / similarity call
  referenceWords,   \* splitIntoWords(referenceText)
  transcribedWords, \* splitIntoWords(transcription): alignWords' spokenWords
  allPairs,         \* alignWords: candidate pairs, after the sort
  cursor,           \* alignWords: index into allPairs of the next pair visited
  matchedRef,       \* alignWords: Set of matched reference indices
  matchedSpoken,    \* alignWords: Set of matched spoken indices
  matches,          \* alignWords: accepted pairs, in order of acceptance
  alignment,        \* alignWords' return value
  wordScores,       \* calculateLevenshteinScores' wordScores
  overallScore,     \* calculateLevenshteinScores' overallScore
  word1,            \* calculateWordSimilarity: first argument
  word2,            \* calculateWordSimilarity: second argument
  similarity,       \* calculateWordSimilarity: return value
  referenceText,    \* calculateLevenshteinScores: argument referenceText
  transcription,    \* calculateLevenshteinScores: argument transcription
  result,           \* calculateLevenshteinScores: return value
  text,             \* splitIntoWords: argument
  tokens,           \* splitIntoWords(text)
  retokens,         \* splitIntoWords of tokens joined by single spaces
  route,            \* analyze-v2: each request's position and locals
  collaborators,    \* analyze-v2: what each request has asked of the collaborators
  client,           \* handleStopRecording: the page state behind each request
  reply,            \* a generative model's reply: apiResponse.text()
  parsed            \* what the caller made of the reply

vars ==
  << pc, referenceWords, transcribedWords, allPairs, cursor, matchedRef,
     matchedSpoken, matches, alignment, wordScores, overallScore, word1,
     word2, similarity, referenceText, transcription, result, text, tokens,
     retokens, route, collaborators, client, reply, parsed >>

alignVars ==
  << referenceWords, transcribedWords, allPairs, cursor, matchedRef,
     matchedSpoken, matches, alignment, wordScores, overallScore >>

simVars == << word1, word2, similarity >>

textVars == << referenceText, transcription, result >>

normVars == << text, tokens, retokens >>

routeVars == << route, collaborators, client >>

parseVars == << reply, parsed >>

\* The variables of the entry points a specification does not call.
NoResult ==
  [transcription |-> << >>, wordScores |-> << >>, overallScore |-> 0,
   method |-> ""]

TextIdle == referenceText = << >> /\ transcription = << >> /\ result = NoResult

NormIdle == text = << >> /\ tokens = << >> /\ retokens = << >>

RouteIdle == route = << >> /\ collaborators = << >> /\ client = << >>

\* No reply has been looked at.
NoParse == [error |-> "", data |-> << >>]

ParseIdle == reply = << >> /\ parsed = NoParse

SimIdle == word1 = << >> /\ word2 = << >> /\ similarity = 0

AlignIdle ==
  /\ referenceWords = << >>
  /\ transcribedWords = << >>
  /\ allPairs = << >>
  /\ cursor = 1
  /\ matchedRef = {}
  /\ matchedSpoken = {}
  /\ matches = << >>
  /\ alignment = << >>
  /\ wordScores = << >>
  /\ overallScore = 0

\* ---------------------------------------------------------- Math helpers
MathMax(a, b) == IF a >= b THEN a ELSE b

MathMin(a, b) == IF a <= b THEN a ELSE b

\* Math.round(num / den) for num >= 0, den > 0: nearest integer, halves up.
MathRound(num, den) == (2 * num + den) \div (2 * den)

\* -------------------------------------------------------- normalizeText
\* String.prototype.normalize('NFC'), on the code units of the model. The
\* canonical decompositions: U+01F0 is j U+030C, and U+095B (ja with nukta)
\* is U+091C U+093C.
Decomposition(c) ==
  CASE c = "01F0" -> << "j", "030C" >>
    [] c = "095B" -> << "091C", "093C" >>
    [] OTHER -> << c >>

\* The primary composite of a starter and a combining mark, "" if there is
\* none: U+095B is excluded from composition, and Unicode has no capital J
\* with caron.
Composite(starter, mark) ==
  IF starter = "j" /\ mark = "030C" THEN "01F0" ELSE ""

RECURSIVE DecomposePrefix(_, _)
DecomposePrefix(t, k) ==
  IF k = 0 THEN << >> ELSE DecomposePrefix(t, k - 1) \o Decomposition(t[k])

RECURSIVE ComposePrefix(_, _)
ComposePrefix(t, k) ==
  IF k = 0 THEN << >>
  ELSE LET out == ComposePrefix(t, k - 1)
       IN  IF out # << >> /\ Composite(out[Len(out)], t[k]) # ""
             THEN [out EXCEPT ![Len(out)] = Composite(out[Len(out)], t[k])]
             ELSE Append(out, t[k])

\* Variant: the normalize('NFC') call left out.
NormalizeNFC_Skipped(t) == t

\* Decompose, then compose. No text of the model puts two different marks
\* after one starter, so canonical reordering has nothing to reorder.
NormalizeNFC(t) ==
  LET d == DecomposePrefix(t, Len(t)) IN ComposePrefix(d, Len(d))

\* String.prototype.toLowerCase.
LowerOf(c) ==
  CASE c = "J" -> "j"
    [] c = "H" -> "h"
    [] c = "W" -> "w"
    [] OTHER -> c

ToLowerCase(t) == [k \in 1..Len(t) |-> LowerOf(t[k])]

\* The character class of the first replace: danda (U+0964) , . ! ? ; : -
Punctuation == {"0964", ",", ".", "!", "?", ";", ":", "-"}

\* The \s class, of which the model has the space and the line feed.
WhiteSpace == {" ", "000A"}

ReplacePunctuation(t) ==
  [k \in 1..Len(t) |-> IF t[k] \in Punctuation THEN " " ELSE t[k]]

\* replace(/\s+/g, " "): every maximal run of white space becomes one space.
RECURSIVE CollapsePrefix(_, _)
CollapsePrefix(t, k) ==
  IF k = 0 THEN << >>
  ELSE LET out == CollapsePrefix(t, k - 1)
       IN  IF t[k] \notin WhiteSpace THEN Append(out, t[k])
           ELSE IF k > 1 /\ t[k - 1] \in WhiteSpace THEN out
           ELSE Append(out, " ")

CollapseWhiteSpace(t) == CollapsePrefix(t, Len(t))

\* String.prototype.trim.
Trim(t) ==
  LET kept == { k \in 1..Len(t) : t[k] \notin WhiteSpace }
  IN  IF kept = {} THEN << >>
      ELSE SubSeq(t, CHOOSE k \in kept : \A h \in kept : k <= h,
                     CHOOSE k \in kept : \A h \in kept : k >= h)

NormalizeText(t) ==
  Trim(CollapseWhiteSpace(ReplacePunctuation(ToLowerCase(NormalizeNFC(t)))))

\* -------------------------------------------------------- splitIntoWords
\* String.prototype.split(/\s+/): the fragments between the maximal runs of
\* white space; the empty string gives one empty fragment.
RECURSIVE SplitPrefix(_, _)
SplitPrefix(t, k) ==
  IF k = 0 THEN << << >> >>
  ELSE LET out == SplitPrefix(t, k - 1)
       IN  IF t[k] \notin WhiteSpace
             THEN [out EXCEPT ![Len(out)] = Append(@, t[k])]
           ELSE IF k > 1 /\ t[k - 1] \in WhiteSpace THEN out
           ELSE Append(out, << >>)

SplitOnWhiteSpace(t) == SplitPrefix(t, Len(t))

NonEmpty(word) == Len(word) > 0

\* Variant: the filter left out.
SplitIntoWords_NoFilter(t) == SplitOnWhiteSpace(NormalizeText(t))

SplitIntoWords(t) == SelectSeq(SplitOnWhiteSpace(NormalizeText(t)), NonEmpty)

\* ------------------------------------------------------ levenshtein.get
\* Distance between the first i code units of s and the first j of t.
RECURSIVE LevPrefix(_, _, _, _)
LevPrefix(s, t, i, j) ==
  IF i = 0 THEN j
  ELSE IF j = 0 THEN i
  ELSE MathMin(MathMin(LevPrefix(s, t, i - 1, j) + 1,
                       LevPrefix(s, t, i, j - 1) + 1),
               LevPrefix(s, t, i - 1, j - 1)
                 + (IF s[i] = t[j] THEN 0 ELSE 1))

\* The number of leading code units s and t have in common.
CommonPrefixLen(s, t) ==
  LET lim == MathMin(Len(s), Len(t))
      differ == { p \in 1..lim : s[p] # t[p] }
  IN  IF differ = {} THEN lim
      ELSE (CHOOSE p \in differ : \A q \in differ : p <= q) - 1

\* The number of trailing code units s and t have in common.
CommonSuffixLen(s, t) ==
  LET lim == MathMin(Len(s), Len(t))
      differ == { p \in 1..lim : s[Len(s) + 1 - p] # t[Len(t) + 1 - p] }
  IN  IF differ = {} THEN lim
      ELSE (CHOOSE p \in differ : \A q \in differ : p <= q) - 1

\* levenshtein.get: the edit distance of s and t. A common prefix and a
\* common suffix leave it unchanged and are dropped before the recurrence.
LevenshteinGet(s, t) ==
  LET pre == CommonPrefixLen(s, t)
      s1 == SubSeq(s, pre + 1, Len(s))
      t1 == SubSeq(t, pre + 1, Len(t))
      suf == CommonSuffixLen(s1, t1)
      s2 == SubSeq(s1, 1, Len(s1) - suf)
      t2 == SubSeq(t1, 1, Len(t1) - suf)
  IN  LevPrefix(s2, t2, Len(s2), Len(t2))

\* Variants of calculateWordSimilarity with one slip each.
CalculateWordSimilarity_Truncates(w1, w2) ==
  LET distance == LevenshteinGet(w1, w2)
      maxLength == MathMax(Len(w1), Len(w2))
  IN  IF maxLength = 0 THEN 100
      ELSE MathMax(0, (maxLength - distance) * 100) \div maxLength

CalculateWordSimilarity_Word1Length(w1, w2) ==
  LET distance == LevenshteinGet(w1, w2)
      maxLength == Len(w1)
  IN  IF maxLength = 0 THEN 100
      ELSE MathRound(MathMax(0, (maxLength - distance) * 100), maxLength)

CalculateWordSimilarity_EmptyIsZero(w1, w2) ==
  LET distance == LevenshteinGet(w1, w2)
      maxLength == MathMax(Len(w1), Len(w2))
  IN  IF maxLength = 0 THEN 0
      ELSE MathRound(MathMax(0, (maxLength - distance) * 100), maxLength)

\* ---------------------------------------------- calculateWordSimilarity
CalculateWordSimilarity(w1, w2) ==
  LET distance == LevenshteinGet(w1, w2)
      maxLength == MathMax(Len(w1), Len(w2))
  IN  IF maxLength = 0 THEN 100
      ELSE \* Math.round(Math.max(0, (1 - distance / maxLength) * 100))
           MathRound(MathMax(0, (maxLength - distance) * 100), maxLength)

\* ------------------------------------------------------------ alignWords
\* Variant: the two early returns map over the wrong array.
EdgeCaseAlignment_WrongArray(ref, spoken) ==
  IF Len(ref) = 0 /\ Len(spoken) = 0 THEN << >>
  ELSE IF Len(ref) = 0
    THEN [i \in 1..Len(ref) |->
            [refWord |-> EXTRA, spokenWord |-> ref[i], similarity |-> 0]]
    ELSE [j \in 1..Len(spoken) |->
            [refWord |-> spoken[j], spokenWord |-> MISSING, similarity |-> 0]]

\* Edge case: if either is empty.
EdgeCaseAlignment(ref, spoken) ==
  IF Len(ref) = 0 /\ Len(spoken) = 0 THEN << >>
  ELSE IF Len(ref) = 0
    THEN [j \in 1..Len(spoken) |->
            [refWord |-> EXTRA, spokenWord |-> spoken[j], similarity |-> 0]]
    ELSE [i \in 1..Len(ref) |->
            [refWord |-> ref[i], spokenWord |-> MISSING, similarity |-> 0]]

\* Step 1 and the allPairs loops: every (i, j), i outer and j inner, with
\* similarityMatrix[i][j].
AllPairsOf(ref, spoken) ==
  LET n == Len(spoken)
  IN  [k \in 1..(Len(ref) * n) |->
         LET i == ((k - 1) \div n) + 1
             j == ((k - 1) % n) + 1
         IN  [refIdx |-> i, spokenIdx |-> j,
              similarity |-> CalculateWordSimilarity(ref[i], spoken[j])]]

\* Variant: comparator a.similarity - b.similarity (ascending).
InsertByDesc_Ascending(sorted, x) ==
  LET before == { k \in 1..Len(sorted) : sorted[k].similarity <= x.similarity }
      cut == Cardinality(before)
  IN  SubSeq(sorted, 1, cut) \o << x >> \o SubSeq(sorted, cut + 1, Len(sorted))

\* Variant: a sort that is not stable and puts x before its equals.
InsertByDesc_BeforeEquals(sorted, x) ==
  LET before == { k \in 1..Len(sorted) : sorted[k].similarity > x.similarity }
      cut == Cardinality(before)
  IN  SubSeq(sorted, 1, cut) \o << x >> \o SubSeq(sorted, cut + 1, Len(sorted))

\* Array.prototype.sort with (a, b) => b.similarity - a.similarity: a stable
\* sort, so x goes after every element whose similarity is >= x's.
InsertByDesc(sorted, x) ==
  LET before == { k \in 1..Len(sorted) : sorted[k].similarity >= x.similarity }
      cut == Cardinality(before)
  IN  SubSeq(sorted, 1, cut) \o << x >> \o SubSeq(sorted, cut + 1, Len(sorted))

RECURSIVE SortPrefix(_, _)
SortPrefix(pairs, k) ==
  IF k = 0 THEN << >> ELSE InsertByDesc(SortPrefix(pairs, k - 1), pairs[k])

\* Variant: the sort left out, the pairs walked as they were enumerated.
SortBySimilarityDesc_Unsorted(pairs) == pairs

SortBySimilarityDesc(pairs) == SortPrefix(pairs, Len(pairs))

\* Variants of the greedy loop's conditions: one check dropped.
Accepts_IgnoresSpoken(pair, mRef, mSpoken) ==
  /\ pair.refIdx \notin mRef
  /\ pair.similarity >= MIN_SIMILARITY_THRESHOLD

Accepts_NoThreshold(pair, mRef, mSpoken) ==
  /\ pair.refIdx \notin mRef
  /\ pair.spokenIdx \notin mSpoken

Accepts_SamePositionOnly(pair, mRef, mSpoken) ==
  /\ pair.refIdx = pair.spokenIdx
  /\ pair.refIdx \notin mRef
  /\ pair.spokenIdx \notin mSpoken
  /\ pair.similarity >= MIN_SIMILARITY_THRESHOLD

Accepts_ThresholdTen(pair, mRef, mSpoken) ==
  /\ pair.refIdx \notin mRef
  /\ pair.spokenIdx \notin mSpoken
  /\ pair.similarity >= 10

\* The two conditions of the greedy loop's body.
Accepts(pair, mRef, mSpoken) ==
  /\ pair.refIdx \notin mRef
  /\ pair.spokenIdx \notin mSpoken
  /\ pair.similarity >= MIN_SIMILARITY_THRESHOLD

\* matches.find(m => m.refIdx === i): index of the first such match, 0 if none.
FindMatch(ms, i) ==
  LET hits == { k \in 1..Len(ms) : ms[k].refIdx = i }
  IN  IF hits = {} THEN 0 ELSE CHOOSE k \in hits : \A h \in hits : k <= h

\* Variant: matched entries pushed in the order they were accepted, the
\* missing reference words after them.
RefEntries_AcceptanceOrder(ref, spoken, ms) ==
  LET missing == { i \in 1..Len(ref) : FindMatch(ms, i) = 0 }
      nth(r) == CHOOSE i \in missing :
                  Cardinality({ u \in missing : u <= i }) = r
  IN  [k \in 1..Len(ref) |->
         IF k <= Len(ms)
           THEN [refWord |-> ref[ms[k].refIdx],
                 spokenWord |-> spoken[ms[k].spokenIdx],
                 similarity |-> ms[k].similarity]
           ELSE [refWord |-> ref[nth(k - Len(ms))], spokenWord |-> MISSING,
                 similarity |-> 0]]

\* First, add all reference words (matched or missing).
RefEntries(ref, spoken, ms) ==
  [i \in 1..Len(ref) |->
     LET f == FindMatch(ms, i)
     IN  IF f # 0
           THEN [refWord |-> ref[i], spokenWord |-> spoken[ms[f].spokenIdx],
                 similarity |-> ms[f].similarity]
           ELSE [refWord |-> ref[i], spokenWord |-> MISSING, similarity |-> 0]]

\* Then, add extra spoken words (not matched to any reference).
RECURSIVE ExtraEntries(_, _, _)
ExtraEntries(spoken, mSpoken, j) ==
  IF j = 0 THEN << >>
  ELSE IF j \notin mSpoken
    THEN Append(ExtraEntries(spoken, mSpoken, j - 1),
                [refWord |-> EXTRA, spokenWord |-> spoken[j], similarity |-> 0])
    ELSE ExtraEntries(spoken, mSpoken, j - 1)

\* ------------------------------------------- calculateLevenshteinScores
WordScoresOf(al) ==
  [k \in 1..Len(al) |->
     [word |-> al[k].refWord, transcribedWord |-> al[k].spokenWord,
      score |-> al[k].similarity]]

RECURSIVE TotalScore(_, _)
TotalScore(ws, k) == IF k = 0 THEN 0 ELSE TotalScore(ws, k - 1) + ws[k].score

\* Variants: Math.floor for Math.round; an empty list scored as perfect.
OverallScoreOf_Truncates(ws) ==
  IF Len(ws) > 0 THEN TotalScore(ws, Len(ws)) \div Len(ws) ELSE 0

OverallScoreOf_EmptyIsPerfect(ws) ==
  IF Len(ws) > 0 THEN MathRound(TotalScore(ws, Len(ws)), Len(ws)) ELSE 100

OverallScoreOf(ws) ==
  IF Len(ws) > 0 THEN MathRound(TotalScore(ws, Len(ws)), Len(ws)) ELSE 0

\* ------------------------------------- the two functions as whole calls
\* The matches after the greedy loop has visited the first k pairs; the two
\* Sets hold the indices of the matches accepted so far.
RECURSIVE GreedyMatches(_, _)
GreedyMatches(pairs, k) ==
  IF k = 0 THEN << >>
  ELSE LET ms == GreedyMatches(pairs, k - 1)
           mRef == { ms[h].refIdx : h \in 1..Len(ms) }
           mSpoken == { ms[h].spokenIdx : h \in 1..Len(ms) }
       IN  IF Accepts(pairs[k], mRef, mSpoken) THEN Append(ms, pairs[k]) ELSE ms

\* alignWords from its arguments to its return value.
AlignWords(ref, spoken) ==
  IF Len(ref) = 0 \/ Len(spoken) = 0 THEN EdgeCaseAlignment(ref, spoken)
  ELSE LET pairs == SortBySimilarityDesc(AllPairsOf(ref, spoken))
           ms == GreedyMatches(pairs, Len(pairs))
           mSpoken == { ms[h].spokenIdx : h \in 1..Len(ms) }
       IN  RefEntries(ref, spoken, ms)
             \o ExtraEntries(spoken, mSpoken, Len(spoken))

\* calculateLevenshteinScores from its arguments to its return value.
CalculateLevenshteinScores(transcribed, reference) ==
  LET ws == WordScoresOf(AlignWords(SplitIntoWords(reference),
                                    SplitIntoWords(transcribed)))
  IN  [transcription |-> transcribed,
       wordScores |-> ws,
       overallScore |-> OverallScoreOf(ws),
       method |-> "Sequence Alignment (Levenshtein)"]

\* ------------------------------------------------------------------ Init
Init ==
  /\ pc = "start"
  /\ referenceWords \in SeqsUpTo(Vocab, MaxRefLen)
  /\ transcribedWords \in SeqsUpTo(Vocab, MaxSpokenLen)
  /\ allPairs = << >>
  /\ cursor = 1
  /\ matchedRef = {}
  /\ matchedSpoken = {}
  /\ matches = << >>
  /\ alignment = << >>
  /\ wordScores = << >>
  /\ overallScore = 0
  /\ word1 = << >>
  /\ word2 = << >>
  /\ similarity = 0
  /\ TextIdle
  /\ NormIdle
  /\ RouteIdle
  /\ ParseIdle

\* --------------------------------------------------------------- actions
\* alignWords, the early returns.
EdgeCases ==
  /\ pc = "start"
  /\ Len(referenceWords) = 0 \/ Len(transcribedWords) = 0
  /\ alignment' = EdgeCaseAlignment(referenceWords, transcribedWords)
  /\ pc' = "score"
  /\ UNCHANGED << referenceWords, transcribedWords, allPairs, cursor,
                  matchedRef, matchedSpoken, matches, wordScores,
                  overallScore, simVars, textVars, normVars, routeVars,
                  parseVars >>

\* alignWords, from the similarity matrix to the sorted candidate list.
BuildPairs ==
  /\ pc = "start"
  /\ Len(referenceWords) # 0
  /\ Len(transcribedWords) # 0
  /\ allPairs' = SortBySimilarityDesc(AllPairsOf(referenceWords, transcribedWords))
  /\ cursor' = 1
  /\ pc' = "walk"
  /\ UNCHANGED << referenceWords, transcribedWords, matchedRef, matchedSpoken,
                  matches, alignment, wordScores, overallScore, simVars, textVars, normVars, routeVars,
                  parseVars >>

\* alignWords, one iteration of "for (const pair of allPairs)".
GreedyStep ==
  /\ pc = "walk"
  /\ cursor <= Len(allPairs)
  /\ LET pair == allPairs[cursor]
     IN  IF Accepts(pair, matchedRef, matchedSpoken)
           THEN /\ matches' = Append(matches, pair)
                /\ matchedRef' = matchedRef \cup {pair.refIdx}
                /\ matchedSpoken' = matchedSpoken \cup {pair.spokenIdx}
           ELSE UNCHANGED << matches, matchedRef, matchedSpoken >>
  /\ cursor' = cursor + 1
  /\ UNCHANGED << pc, referenceWords, transcribedWords, allPairs, alignment,
                  wordScores, overallScore, simVars, textVars, normVars, routeVars,
                  parseVars >>

\* Variant: match.spokenIdx read without the "if (match)" test, a TypeError
\* for a reference word that has no match.
BuildAlignment_Unguarded ==
  /\ pc = "walk"
  /\ cursor > Len(allPairs)
  /\ IF \A i \in 1..Len(referenceWords) : FindMatch(matches, i) # 0
       THEN /\ alignment' =
                 RefEntries(referenceWords, transcribedWords, matches)
                   \o ExtraEntries(transcribedWords, matchedSpoken,
                                   Len(transcribedWords))
            /\ pc' = "score"
       ELSE /\ alignment' = alignment
            /\ pc' = "error"
  /\ UNCHANGED << referenceWords, transcribedWords, allPairs, cursor,
                  matchedRef, matchedSpoken, matches, wordScores,
                  overallScore, simVars, textVars, normVars, routeVars,
                  parseVars >>

\* Variant: the loop over the unmatched spoken words left out.
BuildAlignment_NoExtras ==
  /\ pc = "walk"
  /\ cursor > Len(allPairs)
  /\ alignment' = RefEntries(referenceWords, transcribedWords, matches)
  /\ pc' = "score"
  /\ UNCHANGED << referenceWords, transcribedWords, allPairs, cursor,
                  matchedRef, matchedSpoken, matches, wordScores,
                  overallScore, simVars, textVars, normVars, routeVars,
                  parseVars >>

\* alignWords, Step 3 and the return.
BuildAlignment ==
  /\ pc = "walk"
  /\ cursor > Len(allPairs)
  /\ alignment' =
       RefEntries(referenceWords, transcribedWords, matches)
         \o ExtraEntries(transcribedWords, matchedSpoken, Len(transcribedWords))
  /\ pc' = "score"
  /\ UNCHANGED << referenceWords, transcribedWords, allPairs, cursor,
                  matchedRef, matchedSpoken, matches, wordScores,
                  overallScore, simVars, textVars, normVars, routeVars,
                  parseVars >>

\* calculateLevenshteinScores, after alignWords has returned.
Score ==
  /\ pc = "score"
  /\ wordScores' = WordScoresOf(alignment)
  /\ overallScore' = OverallScoreOf(WordScoresOf(alignment))
  /\ pc' = "done"
  /\ UNCHANGED << referenceWords, transcribedWords, allPairs, cursor,
                  matchedRef, matchedSpoken, matches, alignment, simVars, textVars, normVars, routeVars,
                  parseVars >>

Next == EdgeCases \/ BuildPairs \/ GreedyStep \/ BuildAlignment \/ Score

Spec == Init /\ [][Next]_vars

\* ------------------------------- calculateWordSimilarity called directly
InitSim ==
  /\ pc = "sim_call"
  /\ word1 \in SeqsUpTo(Alphabet, MaxTokLen)
  /\ word2 \in SeqsUpTo(Alphabet, MaxTokLen)
  /\ similarity = 0
  /\ referenceWords = << >>
  /\ transcribedWords = << >>
  /\ allPairs = << >>
  /\ cursor = 1
  /\ matchedRef = {}
  /\ matchedSpoken = {}
  /\ matches = << >>
  /\ alignment = << >>
  /\ wordScores = << >>
  /\ overallScore = 0
  /\ TextIdle
  /\ NormIdle
  /\ RouteIdle
  /\ ParseIdle

WordSimilarity ==
  /\ pc = "sim_call"
  /\ similarity' = CalculateWordSimilarity(word1, word2)
  /\ pc' = "sim_done"
  /\ UNCHANGED << word1, word2, alignVars, textVars, normVars, routeVars,
                  parseVars >>

NextSim == WordSimilarity

SpecSim == InitSim /\ [][NextSim]_vars

\* ----------------------------------------- splitIntoWords called directly
\* The tokens joined by single spaces.
RECURSIVE JoinPrefix(_, _)
JoinPrefix(ws, k) ==
  IF k = 0 THEN << >>
  ELSE IF k = 1 THEN ws[1]
  ELSE JoinPrefix(ws, k - 1) \o << " " >> \o ws[k]

JoinWithSpaces(ws) == JoinPrefix(ws, Len(ws))

InitNorm ==
  /\ pc = "norm_call"
  /\ text \in SeqsUpTo(NormChars, MaxTextLen)
  /\ tokens = << >>
  /\ retokens = << >>
  /\ AlignIdle
  /\ SimIdle
  /\ TextIdle
  /\ RouteIdle
  /\ ParseIdle

SplitText ==
  /\ pc = "norm_call"
  /\ tokens' = SplitIntoWords(text)
  /\ pc' = "norm_done"
  /\ UNCHANGED << text, retokens, alignVars, simVars, textVars, routeVars,
                  parseVars >>

SplitAgain ==
  /\ pc = "norm_done"
  /\ retokens' = SplitIntoWords(JoinWithSpaces(tokens))
  /\ pc' = "renorm_done"
  /\ UNCHANGED << text, tokens, alignVars, simVars, textVars, routeVars,
                  parseVars >>

NextNorm == SplitText \/ SplitAgain

SpecNorm == InitNorm /\ [][NextNorm]_vars

\* ------------------------------ calculateLevenshteinScores on two texts
InitText ==
  /\ pc = "split"
  /\ referenceText \in ScenarioTexts
  /\ transcription \in ScenarioTexts
  /\ result = NoResult
  /\ AlignIdle
  /\ SimIdle
  /\ NormIdle
  /\ RouteIdle
  /\ ParseIdle

\* Split both texts into words.
SplitTexts ==
  /\ pc = "split"
  /\ referenceWords' = SplitIntoWords(referenceText)
  /\ transcribedWords' = SplitIntoWords(transcription)
  /\ pc' = "start"
  /\ UNCHANGED << allPairs, cursor, matchedRef, matchedSpoken, matches,
                  alignment, wordScores, overallScore, simVars, textVars,
                  normVars, routeVars,
                  parseVars >>

\* Variant: the transcription is returned as it was normalized for scoring.
Return_NormalizedTranscription ==
  /\ pc = "done"
  /\ result' = [transcription |-> NormalizeText(transcription),
                wordScores |-> wordScores,
                overallScore |-> overallScore,
                method |-> "Sequence Alignment (Levenshtein)"]
  /\ pc' = "returned"
  /\ UNCHANGED << alignVars, simVars, referenceText, transcription, normVars, routeVars,
                  parseVars >>

\* The return statement.
Return ==
  /\ pc = "done"
  /\ result' = [transcription |-> transcription,
                wordScores |-> wordScores,
                overallScore |-> overallScore,
                method |-> "Sequence Alignment (Levenshtein)"]
  /\ pc' = "returned"
  /\ UNCHANGED << alignVars, simVars, referenceText, transcription, normVars, routeVars,
                  parseVars >>

NextText ==
  \/ SplitTexts
  \/ EdgeCases
  \/ BuildPairs
  \/ GreedyStep
  \/ BuildAlignment
  \/ Score
  \/ Return

SpecText == InitText /\ [][NextText]_vars

\* --------------------------- alignWords on a sentence and a reordering of it
InitPerm ==
  /\ pc = "start"
  /\ referenceWords \in SeqsUpTo(PermVocab, MaxPermLen) \ { << >> }
  /\ transcribedWords \in PermutationsOf(referenceWords)
  /\ allPairs = << >>
  /\ cursor = 1
  /\ matchedRef = {}
  /\ matchedSpoken = {}
  /\ matches = << >>
  /\ alignment = << >>
  /\ wordScores = << >>
  /\ overallScore = 0
  /\ SimIdle
  /\ TextIdle
  /\ NormIdle
  /\ RouteIdle
  /\ ParseIdle

NextPerm == BuildPairs \/ GreedyStep \/ BuildAlignment \/ Score

SpecPerm == InitPerm /\ [][NextPerm]_vars

\* ------------------------------ a generative model's reply, parsed as JSON
\* A reply is a sequence of units: the two braces, the members the schema
\* requires written out as valid JSON ("K"), the key and colon of a member
\* whose value is an object ("N"), and a character of prose ("p").
ReplyUnits == { "{", "}", "K", "N", "p" }

\* text.match(/\{[\s\S]*\}/): the reply from its first opening brace to its
\* last closing brace, << >> when no closing brace follows an opening one.
JsonMatch(t) ==
  LET opens == { p \in 1..Len(t) : t[p] = "{" }
      first == CHOOSE p \in opens : \A q \in opens : p <= q
      closes == { p \in 1..Len(t) : t[p] = "}" /\ p > first }
      last == CHOOSE p \in closes : \A q \in closes : p >= q
  IN  IF opens = {} THEN << >>
      ELSE IF closes = {} THEN << >>
      ELSE SubSeq(t, first, last)

\* The place after the JSON object that starts at place i of t, 0 when no
\* object starts there: an object is {}, {K} or {N object}.
RECURSIVE ObjectEnd(_, _)
ObjectEnd(t, i) ==
  IF i > Len(t) \/ t[i] # "{" THEN 0
  ELSE IF i + 1 <= Len(t) /\ t[i + 1] = "}" THEN i + 2
  ELSE IF i + 2 <= Len(t) /\ t[i + 1] = "K" /\ t[i + 2] = "}" THEN i + 3
  ELSE IF i + 1 <= Len(t) /\ t[i + 1] = "N"
    THEN LET e == ObjectEnd(t, i + 2)
         IN  IF e # 0 /\ e <= Len(t) /\ t[e] = "}" THEN e + 1 ELSE 0
  ELSE 0

\* JSON.parse does not throw: the whole span is one object.
JsonParses(span) == ObjectEnd(span, 1) = Len(span) + 1

\* safeParse succeeds: the object has the members the schema requires.
SchemaAccepts(span) == span = << "{", "K", "}" >>

\* From "if (!text)" to the return: the error thrown, "" for none, and the
\* validated object.
ParseReply(t, failed, invalid) ==
  IF t = << >> THEN [error |-> "Empty response from AI", data |-> << >>]
  ELSE IF JsonMatch(t) = << >> THEN [error |-> failed, data |-> << >>]
  ELSE IF ~JsonParses(JsonMatch(t))
    THEN [error |-> "SyntaxError", data |-> << >>]
  ELSE IF ~SchemaAccepts(JsonMatch(t)) THEN [error |-> invalid, data |-> << >>]
  ELSE [error |-> "", data |-> JsonMatch(t)]

InitParse ==
  /\ pc = "parse_call"
  /\ reply \in SeqsUpTo(ReplyUnits, MaxReplyLen)
  /\ parsed = NoParse
  /\ AlignIdle
  /\ SimIdle
  /\ TextIdle
  /\ NormIdle
  /\ RouteIdle

\* transcribeAudio, from the reply text to the return or the throw.
ExtractJson ==
  /\ pc = "parse_call"
  /\ parsed' = ParseReply(reply, "Failed to parse transcription",
                          "Invalid transcription structure from AI")
  /\ pc' = "parse_done"
  /\ UNCHANGED << reply, alignVars, simVars, textVars, normVars, routeVars >>

NextParse == ExtractJson

SpecParse == InitParse /\ [][NextParse]_vars

\* ------------------------- POST /api/pronunciation/analyze-v2 and its page
\* Each request is one press of Stop on a page of its own. A step is what
\* runs between two awaits. The transliteration shown beside each word is
\* looked up for display only and is left out of the word scores.
Requests == 1..MaxRequests

RouteRef == << "a", "b", " ", "b" >>

\* currentSentence on the page: a sentence in each language, one of them the
\* marker of alignWords, and a sentence without text.
RouteSentences ==
  { [originalScript |-> RouteRef, transliteration |-> << "t" >>,
     language |-> "hindi"],
    [originalScript |-> ExtraAsText, transliteration |-> << "t" >>,
     language |-> "kannada"],
    [originalScript |-> << >>, transliteration |-> << >>,
     language |-> "hindi"] }

\* What the transcription model hears: the sentence, its first word cut
\* short with another word after it, and another word altogether.
RouteTranscriptions ==
  { RouteRef, << "a", " ", "x" >>, << "x" >> }

\* Replies of a generative model: prose, an object without the members, the
\* object the schema requires, and that object before a stray brace.
RouteReplies ==
  { << "p" >>, << "{", "}" >>, << "{", "K", "}" >>,
    << "{", "K", "}", "}" >> }

\* totalTokens reported with a reply that carries tips.
TipsTokens == 7

NoResponse ==
  [status |-> 0, error |-> "", details |-> "", transcription |-> << >>,
   wordScores |-> << >>, overallScore |-> 0, tips |-> << >>,
   tipsTokens |-> 0]

NoBody ==
  [audio |-> FALSE, referenceText |-> << >>, transliteration |-> << >>,
   language |-> ""]

\* No handler is running for the request.
NoRequest ==
  [stage |-> "idle", body |-> NoBody, transcription |-> << >>,
   levenshteinResult |-> NoResult, problemWords |-> << >>,
   response |-> NoResponse]

\* The checks of the request before any work is done: the error of the 400
\* response, "" when the request is accepted.
Validate(body) ==
  IF ~body.audio THEN "No audio file provided"
  ELSE IF body.referenceText = << >> \/ body.language = ""
            \/ body.transliteration = << >>
    THEN "Missing referenceText, transliteration, or language"
  ELSE IF body.language # "hindi" /\ body.language # "kannada"
    THEN "Invalid language. Must be 'hindi' or 'kannada'"
  ELSE ""

\* Variant: the word scores are pushed onto an array that outlives the call,
\* so a call made while another request waits for its tips starts from that
\* request's scores.
Stage2_SharedWordScores(r, transcribed) ==
  LET own == CalculateLevenshteinScores(transcribed,
                                        route[r].body.referenceText)
      waiting == { o \in Requests \ {r} : route[o].stage = "tips" }
      left == IF waiting = {} THEN << >>
              ELSE route[CHOOSE o \in waiting : TRUE]
                     .levenshteinResult.wordScores
      ws == left \o own.wordScores
  IN  [own EXCEPT !.wordScores = ws, !.overallScore = OverallScoreOf(ws)]

\* Stage 2: the scoring call of request r on the transcription it was given.
Stage2(r, transcribed) ==
  CalculateLevenshteinScores(transcribed, route[r].body.referenceText)

\* Identify problem words (score < 70%).
ProblemWords(ws) ==
  LET low == SelectSeq(ws, LAMBDA e : e.score < 70 /\ e.word # EXTRA)
  IN  [k \in 1..Len(low) |->
         [word |-> low[k].word, spokenWord |-> low[k].transcribedWord,
          score |-> low[k].score]]

\* res.json of a finished analysis.
Analysis(transcribed, lev, tips, totalTokens) ==
  [status |-> 200, error |-> "", details |-> "",
   transcription |-> transcribed, wordScores |-> lev.wordScores,
   overallScore |-> lev.overallScore, tips |-> tips,
   tipsTokens |-> totalTokens]

\* The handler of request r returns with a response; its locals are gone.
Respond(r, resp) ==
  route' = [route EXCEPT ![r] = [NoRequest EXCEPT !.stage = "responded",
                                                  !.response = resp]]

\* Variant: the catch block runs the handler once more before it gives up.
CatchError_TriesAgain(r, message) ==
  IF collaborators.calls[r].convert < 2
    THEN route' = [route EXCEPT ![r] = [NoRequest EXCEPT
                                          !.stage = "received",
                                          !.body = route[r].body]]
    ELSE Respond(r, [NoResponse EXCEPT
                       !.status = 500,
                       !.error = "Failed to analyze pronunciation",
                       !.details = message])

\* The catch block of the route.
CatchError(r, message) ==
  Respond(r, [NoResponse EXCEPT !.status = 500,
                                !.error = "Failed to analyze pronunciation",
                                !.details = message])

NoCalls == [convert |-> 0, transcribe |-> 0, tips |-> << >>, failed |-> ""]

InitRoute ==
  /\ pc = "serving"
  /\ route = [r \in Requests |-> NoRequest]
  /\ collaborators =
       [testAudio |-> FALSE, calls |-> [r \in Requests |-> NoCalls]]
  /\ client \in [Requests ->
                   { [stage |-> "ready", currentSentence |-> s,
                      isProcessing |-> FALSE, fetches |-> 0, toast |-> "",
                      analysisResult |-> NoResponse] :
                     s \in RouteSentences }]
  /\ AlignIdle
  /\ SimIdle
  /\ TextIdle
  /\ NormIdle
  /\ ParseIdle

routeFrame == << pc, alignVars, simVars, textVars, normVars, parseVars >>

\* The user stops the recording: up to "await stopRecording()".
HandleStopRecording(r) ==
  /\ client[r].stage = "ready"
  /\ client' = [client EXCEPT ![r].stage = "stopping",
                              ![r].isProcessing = TRUE]
  /\ UNCHANGED << route, collaborators, routeFrame >>

\* stopRecording settles: the page sends the one fetch, or shows the error.
RecordingSettles(r) ==
  /\ client[r].stage = "stopping"
  /\ \E recorded \in BOOLEAN :
       IF recorded
         THEN /\ client' = [client EXCEPT
                              ![r].stage = "waiting",
                              ![r].fetches = client[r].fetches + 1]
              /\ route' = [route EXCEPT
                             ![r].stage = "received",
                             ![r].body =
                               [audio |-> TRUE,
                                referenceText |->
                                  client[r].currentSentence.originalScript,
                                transliteration |->
                                  client[r].currentSentence.transliteration,
                                language |->
                                  client[r].currentSentence.language]]
         ELSE /\ client' = [client EXCEPT ![r].stage = "shown",
                                          ![r].toast = "Error",
                                          ![r].isProcessing = FALSE]
              /\ UNCHANGED route
  /\ UNCHANGED << collaborators, routeFrame >>

\* The handler from its start to "await convertWebMToWAV".
Receive(r) ==
  /\ route[r].stage = "received"
  /\ IF Validate(route[r].body) # ""
       THEN /\ Respond(r, [NoResponse EXCEPT
                             !.status = 400,
                             !.error = Validate(route[r].body)])
            /\ UNCHANGED collaborators
       ELSE /\ route' = [route EXCEPT ![r].stage = "converting"]
            /\ collaborators' =
                 [collaborators EXCEPT
                    !.testAudio = TRUE,
                    !.calls[r].convert = collaborators.calls[r].convert + 1]
  /\ UNCHANGED << client, routeFrame >>

\* convertWebMToWAV settles: the model is asked for the transcription, or
\* the error reaches the catch block.
ConversionSettles(r) ==
  /\ route[r].stage = "converting"
  /\ \E converted \in BOOLEAN :
       IF converted
         THEN /\ route' = [route EXCEPT ![r].stage = "transcribing"]
              /\ collaborators' =
                   [collaborators EXCEPT
                      !.calls[r].transcribe =
                        collaborators.calls[r].transcribe + 1]
         ELSE /\ CatchError(r, "Audio conversion failed")
              /\ collaborators' =
                   [collaborators EXCEPT !.calls[r].failed = "convert"]
  /\ UNCHANGED << client, routeFrame >>

\* generateContent settles in transcribeAudio: the reply is parsed, the
\* transcription is scored, and the tips are asked for or the response sent.
TranscriptionSettles(r) ==
  /\ route[r].stage = "transcribing"
  /\ \/ /\ CatchError(r, "upstream")
        /\ collaborators' =
             [collaborators EXCEPT !.calls[r].failed = "transcribe"]
     \/ \E t \in RouteReplies, transcribed \in RouteTranscriptions :
          LET p == ParseReply(t, "Failed to parse transcription",
                              "Invalid transcription structure from AI")
              lev == Stage2(r, transcribed)
              problemWords == ProblemWords(lev.wordScores)
          IN  IF p.error # ""
                THEN /\ CatchError(r, p.error)
                     /\ collaborators' =
                          [collaborators EXCEPT
                             !.calls[r].failed = "transcribe"]
              ELSE IF Len(problemWords) > 0
                THEN /\ route' = [route EXCEPT
                                    ![r].stage = "tips",
                                    ![r].transcription = transcribed,
                                    ![r].levenshteinResult = lev,
                                    ![r].problemWords = problemWords]
                     /\ collaborators' =
                          [collaborators EXCEPT
                             !.calls[r].tips =
                               Append(collaborators.calls[r].tips,
                                      problemWords)]
              ELSE /\ Respond(r, Analysis(transcribed, lev, << >>, 0))
                   /\ UNCHANGED collaborators
  /\ UNCHANGED << client, routeFrame >>

\* generateContent settles in getPronunciationTips.
TipsSettle(r) ==
  /\ route[r].stage = "tips"
  /\ \/ /\ CatchError(r, "upstream")
        /\ collaborators' = [collaborators EXCEPT !.calls[r].failed = "tips"]
     \/ \E t \in RouteReplies :
          LET p == ParseReply(t, "Failed to parse tips",
                              "Invalid tips structure from AI")
              tips == [k \in 1..Len(route[r].problemWords) |->
                         route[r].problemWords[k].word]
          IN  IF p.error # ""
                THEN /\ CatchError(r, p.error)
                     /\ collaborators' =
                          [collaborators EXCEPT !.calls[r].failed = "tips"]
                ELSE /\ Respond(r, Analysis(route[r].transcription,
                                            route[r].levenshteinResult,
                                            tips, TipsTokens))
                     /\ UNCHANGED collaborators
  /\ UNCHANGED << client, routeFrame >>

\* fetch settles on the page: the result or the error is shown.
ResponseArrives(r) ==
  /\ route[r].stage = "responded"
  /\ client[r].stage = "waiting"
  /\ IF route[r].response.status = 200
       THEN client' = [client EXCEPT
                         ![r].stage = "shown",
                         ![r].analysisResult = route[r].response,
                         ![r].toast = "Analysis Complete",
                         ![r].isProcessing = FALSE]
       ELSE client' = [client EXCEPT ![r].stage = "shown",
                                     ![r].toast = "Error",
                                     ![r].isProcessing = FALSE]
  /\ route' = [route EXCEPT ![r] = NoRequest]
  /\ UNCHANGED << collaborators, routeFrame >>

NextRoute ==
  \E r \in Requests :
    \/ HandleStopRecording(r)
    \/ RecordingSettles(r)
    \/ Receive(r)
    \/ ConversionSettles(r)
    \/ TranscriptionSettles(r)
    \/ TipsSettle(r)
    \/ ResponseArrives(r)

SpecRoute == InitRoute /\ [][NextRoute]_vars

\* ============================================================ properties
m == Len(referenceWords)

n == Len(transcribedWords)

Returned == pc \in {"score", "done"}

IsExtra(e) == e.refWord = EXTRA

IsMissing(e) == e.spokenWord = MISSING

IsMatched(e) == ~IsExtra(e) /\ ~IsMissing(e)

EntriesWhere(P(_)) == { k \in 1..Len(alignment) : P(alignment[k]) }

RECURSIVE SumSimilarity(_, _)
SumSimilarity(seq, k) ==
  IF k = 0 THEN 0 ELSE SumSimilarity(seq, k - 1) + seq[k].similarity

\* q is num / den rounded to the nearest integer, halves up.
IsRounded(q, num, den) ==
  /\ 2 * den * q <= 2 * num + den
  /\ 2 * num + den < 2 * den * (q + 1)

\* ---- C1
\* C1: the output of alignWords partitions both inputs. No reference index
\* and no spoken index is in two accepted matches; the entries holding a
\* real reference token carry exactly the reference tokens, each as often as
\* it occurs in the reference; the entries holding a real spoken token carry
\* exactly the spoken tokens, each as often as it was spoken; and the
\* Matched entries are the accepted matches, one entry for each.
C1_Partition ==
  Returned =>
    /\ \A i \in 1..m :
         Cardinality({ k \in 1..Len(matches) : matches[k].refIdx = i }) <= 1
    /\ \A j \in 1..n :
         Cardinality({ k \in 1..Len(matches) : matches[k].spokenIdx = j }) <= 1
    /\ \A w \in Vocab :
         /\ Cardinality({ k \in 1..Len(alignment) : alignment[k].refWord = w })
              = Cardinality({ i \in 1..m : referenceWords[i] = w })
         /\ Cardinality({ k \in 1..Len(alignment) : alignment[k].spokenWord = w })
              = Cardinality({ j \in 1..n : transcribedWords[j] = w })
    /\ \A k \in 1..Len(alignment) :
         /\ alignment[k].refWord \in Vocab \cup {EXTRA}
         /\ alignment[k].spokenWord \in Vocab \cup {MISSING}
         /\ ~(IsExtra(alignment[k]) /\ IsMissing(alignment[k]))
    /\ Cardinality(EntriesWhere(IsMatched)) = Len(matches)
    /\ Len(alignment) = m + n - Len(matches)

\* A returned alignment with a Matched, a Missing and an Extra entry, and a
\* token that occurs twice in the reference.
C1_Witness ==
  /\ Returned
  /\ EntriesWhere(IsMatched) # {}
  /\ EntriesWhere(IsMissing) # {}
  /\ EntriesWhere(IsExtra) # {}
  /\ \E i, k \in 1..m : i # k /\ referenceWords[i] = referenceWords[k]

\* ---- C2
\* C2: every accepted match, and every Matched entry of the output, has a
\* similarity in 30..100, which is the similarity of the two tokens it pairs.
C2_MatchedAboveThreshold ==
  /\ \A k \in 1..Len(matches) :
       matches[k].similarity \in MIN_SIMILARITY_THRESHOLD..100
  /\ \A k \in 1..Len(alignment) :
       IsMatched(alignment[k]) =>
         /\ alignment[k].similarity \in 30..100
         /\ alignment[k].similarity =
              CalculateWordSimilarity(alignment[k].refWord,
                                      alignment[k].spokenWord)

\* A pair below the threshold whose two indices were both free when the walk
\* visited it, and that ended as one Missing and one Extra entry.
C2_Witness ==
  /\ Returned
  /\ \E i \in 1..m, j \in 1..n :
       /\ i \notin matchedRef
       /\ j \notin matchedSpoken
       /\ CalculateWordSimilarity(referenceWords[i], transcribedWords[j])
            \in 1..29
  /\ EntriesWhere(IsMatched) # {}

\* ---- C3
\* C3: the output is one entry per reference token in ascending reference
\* index, none of them Extra, followed by the Extra entries, one per
\* unmatched spoken token in ascending spoken index.
C3_Ordering ==
  Returned =>
    LET unmatched == { j \in 1..n : j \notin matchedSpoken }
        rank(j) == Cardinality({ u \in unmatched : u <= j })
    IN  /\ Len(alignment) = m + Cardinality(unmatched)
        /\ \A i \in 1..m :
             /\ alignment[i].refWord = referenceWords[i]
             /\ ~IsExtra(alignment[i])
        /\ \A j \in unmatched :
             /\ IsExtra(alignment[m + rank(j)])
             /\ alignment[m + rank(j)].spokenWord = transcribedWords[j]
             /\ alignment[m + rank(j)].similarity = 0

\* Two matches were accepted, the one with the higher reference index first.
C3_Witness ==
  /\ Returned
  /\ Len(matches) >= 2
  /\ matches[2].refIdx < matches[1].refIdx
  /\ referenceWords[matches[1].refIdx] # referenceWords[matches[2].refIdx]

\* ---- C4
\* C4: for a non-empty alignment overallScore is an integer in 0..100, the
\* mean of the similarities of all entries rounded to the nearest integer with
\* halves up, where the accepted matches contribute their similarity and the
\* Missing and Extra entries 0; nine entries at 100 and one Missing give 90.
C4_OverallScoreIsRoundedMean ==
  /\ (pc = "done" /\ Len(wordScores) > 0) =>
       /\ overallScore \in 0..100
       /\ Len(wordScores) = m + n - Len(matches)
       /\ IsRounded(overallScore, SumSimilarity(matches, Len(matches)),
                    m + n - Len(matches))
  /\ OverallScoreOf([k \in 1..10 |->
                       [word |-> << "a" >>,
                        transcribedWord |-> IF k = 10 THEN MISSING ELSE << "a" >>,
                        score |-> IF k = 10 THEN 0 ELSE 100]]) = 90

\* A scored alignment with a Matched and an unmatched entry whose mean falls
\* on a half.
C4_Witness ==
  /\ pc = "done"
  /\ EntriesWhere(IsMatched) # {}
  /\ EntriesWhere(IsMissing) \cup EntriesWhere(IsExtra) # {}
  /\ (2 * SumSimilarity(alignment, Len(alignment))) % (2 * Len(alignment))
       = Len(alignment)

\* ---- C5
\* C5 as stated: identical token sequences score 100, empty ones included.
C5_AsStated ==
  (pc = "done" /\ referenceWords = transcribedWords) => overallScore = 100

\* C5 as amended: identical non-empty token sequences score 100.
C5_IdenticalNonEmptyScores100 ==
  (pc = "done" /\ referenceWords = transcribedWords /\ m > 0) =>
    overallScore = 100

\* Two identical sequences of two different tokens have been scored.
C5_Witness ==
  /\ pc = "done"
  /\ referenceWords = transcribedWords
  /\ m = 2
  /\ referenceWords[1] # referenceWords[2]
  /\ overallScore = 100

\* ---- C6
\* C6: two empty token sequences give an empty entry list and the score 0.
C6_BothEmpty ==
  (pc = "done" /\ m = 0 /\ n = 0) =>
    /\ alignment = << >>
    /\ wordScores = << >>
    /\ overallScore = 0

C6_Witness == pc = "done" /\ m = 0 /\ n = 0 /\ overallScore = 0

\* ---- C7
\* C7: when exactly one sequence is empty, the output is one entry per token
\* of the other, in its order, with similarity 0: Extra entries when the
\* reference is empty, Missing entries when nothing was spoken; no entry is
\* Matched and the score is 0.
C7_OneEmpty ==
  (pc = "done" /\ (m = 0) # (n = 0)) =>
    /\ Len(alignment) = m + n
    /\ \A k \in 1..Len(alignment) :
         /\ alignment[k].similarity = 0
         /\ ~IsMatched(alignment[k])
         /\ m = 0 => /\ IsExtra(alignment[k])
                     /\ alignment[k].spokenWord = transcribedWords[k]
         /\ n = 0 => /\ IsMissing(alignment[k])
                     /\ alignment[k].refWord = referenceWords[k]
    /\ wordScores = WordScoresOf(alignment)
    /\ overallScore = 0

\* Two different spoken tokens against an empty reference have been scored.
C7_Witness ==
  /\ pc = "done"
  /\ m = 0
  /\ n = 2
  /\ transcribedWords[1] # transcribedWords[2]
  /\ Len(alignment) = 2

\* ---- C8
\* The strings one insertion, deletion or substitution away from s, no
\* longer than maxLen.
OneEdit(s, maxLen) ==
  { SubSeq(s, 1, p - 1) \o SubSeq(s, p + 1, Len(s)) : p \in 1..Len(s) }
    \cup { [s EXCEPT ![p[1]] = p[2]] : p \in (1..Len(s)) \X Alphabet }
    \cup (IF Len(s) >= maxLen THEN {}
          ELSE { SubSeq(s, 1, p[1]) \o << p[2] >> \o SubSeq(s, p[1] + 1, Len(s)) :
                   p \in (0..Len(s)) \X Alphabet })

RECURSIVE WithinEdits(_, _, _)
WithinEdits(S, k, maxLen) ==
  IF k = 0 THEN S
  ELSE WithinEdits(S \cup UNION { OneEdit(s, maxLen) : s \in S }, k - 1, maxLen)

\* The least number of single-character edits that turn a into b.
EditDistance(a, b) ==
  LET maxLen == MathMax(Len(a), Len(b))
  IN  CHOOSE k \in 0..maxLen :
        /\ b \in WithinEdits({a}, k, maxLen)
        /\ \A h \in 0..(k - 1) : b \notin WithinEdits({a}, h, maxLen)

\* C8: for tokens not both empty the similarity is (1 - d / L) * 100 rounded
\* to the nearest integer, halves up, d the least number of single-character
\* edits and L the greater length; it is in 0..100, and it is 0 exactly when
\* the ratio rounds to 0, as it does when d = L.
C8_SimilarityFormula ==
  (pc = "sim_done" /\ Len(word1) + Len(word2) > 0) =>
    LET d == EditDistance(word1, word2)
        L == MathMax(Len(word1), Len(word2))
    IN  /\ similarity \in 0..100
        /\ d \in 0..L
        /\ IsRounded(similarity, (L - d) * 100, L)
        /\ (similarity = 0) <=> (200 * (L - d) < L)
        /\ d = L => similarity = 0

\* A similarity that had to be rounded up, for tokens of different lengths.
C8_Witness ==
  /\ pc = "sim_done"
  /\ Len(word1) = 3
  /\ Len(word2) = 2
  /\ similarity = 67

\* ---- C9
\* C9: the similarity of (a, b) is the similarity of (b, a).
C9_Symmetric ==
  pc = "sim_done" => similarity = CalculateWordSimilarity(word2, word1)

\* Tokens of different lengths, neither a prefix of the other.
C9_Witness ==
  /\ pc = "sim_done"
  /\ Len(word1) < Len(word2)
  /\ word1 # << >>
  /\ word1[1] # word2[1]
  /\ similarity \in 1..99

\* ---- C10
\* C10: a token has similarity 100 with itself, the empty token included.
C10_Reflexive ==
  (pc = "sim_done" /\ word1 = word2) => similarity = 100

C10_Witness ==
  /\ pc = "sim_done"
  /\ word1 = << >>
  /\ word2 = << >>
  /\ similarity = 100

\* ---- C11
\* C11: splitting the tokens of a text, joined by single spaces, gives the
\* same tokens again.
C11_Idempotent == pc = "renorm_done" => retokens = tokens

\* ---- C12
UpperLatin == {"J", "H", "W"}

Separators == WhiteSpace \cup Punctuation

RECURSIVE Flatten(_, _)
Flatten(ws, k) == IF k = 0 THEN << >> ELSE Flatten(ws, k - 1) \o ws[k]

IsLetter(c) == c \notin Separators

\* C12: every token of splitIntoWords is non-empty and has no white space,
\* no punctuation character and no capital Latin letter; the tokens are, in
\* order, the composed and lower-cased text without its separators; a text
\* of separators only, the empty text included, gives no token at all.
C12_TokensAreClean ==
  pc \in {"norm_done", "renorm_done"} =>
    /\ \A k \in 1..Len(tokens) :
         /\ tokens[k] # << >>
         /\ \A p \in 1..Len(tokens[k]) :
              tokens[k][p] \notin WhiteSpace \cup Punctuation \cup UpperLatin
    /\ Flatten(tokens, Len(tokens))
         = SelectSeq(ToLowerCase(NormalizeNFC(text)), IsLetter)
    /\ (\A p \in 1..Len(text) : text[p] \in Separators) => tokens = << >>

\* Two tokens came out of a text with a capital letter and a comma.
C12_Witness ==
  /\ pc = "norm_done"
  /\ Len(tokens) = 2
  /\ \E p, q \in 1..Len(text) : text[p] = "J" /\ text[q] = ","

\* ---- C13
Scored == pc \in {"done", "returned"}

\* Two texts are canonically equivalent when their full canonical
\* decompositions are the same.
CanonicallyEquivalent(x, y) ==
  DecomposePrefix(x, Len(x)) = DecomposePrefix(y, Len(y))

\* C13: two texts that differ only in writing a character precomposed or as
\* base and combining mark give the same tokens, and every word is matched
\* with its counterpart at similarity 100.
C13_CanonicalVariantsAgree ==
  (Scored /\ CanonicallyEquivalent(referenceText, transcription)) =>
    /\ referenceWords = transcribedWords
    /\ Len(alignment) = m
    /\ \A k \in 1..Len(alignment) :
         /\ alignment[k].refWord = alignment[k].spokenWord
         /\ alignment[k].similarity = 100

\* The reference has U+095B where the transcription has U+091C U+093C.
C13_Witness ==
  /\ pc = "returned"
  /\ referenceText = BazaarPrecomposed
  /\ transcription = BAZAAR
  /\ alignment # << >>

\* ---- C14
\* How far a call has come.
Phase ==
  CASE pc = "split" -> 0
    [] pc = "start" -> 1
    [] pc = "walk" -> 2
    [] pc = "score" -> 3
    [] pc = "done" -> 4
    [] pc = "returned" -> 5
    [] OTHER -> -1

\* Some statement of the call is ready to run.
CanStep ==
  \/ pc \in {"split", "start", "score", "done"}
  \/ pc = "walk" /\ cursor \in 1..(Len(allPairs) + 1)

\* C14: a call of calculateLevenshteinScores never stops before its return
\* and never ends in an error; every step brings it nearer to the return,
\* either into a later phase or one pair further in the greedy loop over a
\* list that no longer changes, so it terminates; and what it returns is one
\* score per entry of the alignment and an overallScore in 0..100.
C14_Total ==
  /\ [](/\ Phase >= 0
        /\ pc # "returned" => CanStep
        /\ pc = "returned" =>
             /\ result.wordScores = WordScoresOf(alignment)
             /\ Len(result.wordScores) = m + n - Len(matches)
             /\ result.overallScore = overallScore
             /\ result.overallScore \in 0..100)
  /\ [][\/ Phase' > Phase
        \/ /\ pc = "walk"
           /\ pc' = "walk"
           /\ allPairs' = allPairs
           /\ cursor' > cursor
           /\ cursor' <= Len(allPairs) + 1]_vars

\* A call on texts whose tokens are all pairwise dissimilar has returned.
C14_Witness ==
  /\ pc = "returned"
  /\ m > 0
  /\ n > 0
  /\ matches = << >>
  /\ Len(result.wordScores) = m + n

\* ---- C15
InScenario1 ==
  referenceText = Scenario1Ref /\ transcription = Scenario1Spoken

\* C15: in scenario 1 the output is three Matched entries in reference
\* order, main and aaj each paired with the identical spoken token at 100
\* although they were spoken in the other order, bazaar paired with bazaari.
C15_Scenario1Reordering ==
  (Scored /\ InScenario1) =>
    /\ referenceWords = << MAIN, AAJ, BAZAAR >>
    /\ transcribedWords = << AAJ, MAIN, BAZAARI >>
    /\ Len(alignment) = 3
    /\ \A k \in 1..3 : IsMatched(alignment[k])
    /\ alignment[1] = [refWord |-> MAIN, spokenWord |-> MAIN, similarity |-> 100]
    /\ alignment[2] = [refWord |-> AAJ, spokenWord |-> AAJ, similarity |-> 100]
    /\ alignment[3].refWord = BAZAAR
    /\ alignment[3].spokenWord = BAZAARI

C15_Witness == pc = "returned" /\ InScenario1 /\ Len(matches) = 3

\* ---- C16
\* C16 as stated: bazaar against bazaari is distance 2 over length 7, so 71,
\* and the three entries score 90.
C16_AsStated ==
  (Scored /\ InScenario1) =>
    /\ LevenshteinGet(referenceWords[3], transcribedWords[3]) = 2
    /\ MathMax(Len(referenceWords[3]), Len(transcribedWords[3])) = 7
    /\ alignment[3].similarity = 71
    /\ overallScore = 90

\* C16 as amended: distance 2 over length 6, so 67, and the three entries
\* score round(267 / 3) = 89.
C16_Scenario1Numbers ==
  (Scored /\ InScenario1) =>
    /\ LevenshteinGet(referenceWords[3], transcribedWords[3]) = 2
    /\ MathMax(Len(referenceWords[3]), Len(transcribedWords[3])) = 6
    /\ alignment[3].similarity = 67
    /\ overallScore = 89

C16_Witness == pc = "done" /\ InScenario1 /\ overallScore = 89

\* ---- C17
InScenario2 ==
  referenceText = Scenario2Ref /\ transcription = Scenario2Spoken

\* C17: in scenario 2 the three reference tokens are Missing entries with
\* similarity 0, and the score is 0.
C17_Scenario2AllMissing ==
  (Scored /\ InScenario2) =>
    /\ referenceWords = << << "a" >>, << "b" >>, << "c" >> >>
    /\ \A i \in 1..3 :
         alignment[i] = [refWord |-> referenceWords[i], spokenWord |-> MISSING,
                         similarity |-> 0]
    /\ overallScore = 0

C17_Witness == pc = "returned" /\ InScenario2 /\ matches = << >>

\* ---- C18
\* C18 as stated: in scenario 2 the alignment has no Extra entry.
C18_AsStated == (Scored /\ InScenario2) => EntriesWhere(IsExtra) = {}

\* C18 as amended: in scenario 2 the alignment has exactly two Extra
\* entries, x and y in that order, after the three Missing entries.
C18_Scenario2TwoExtras ==
  (Scored /\ InScenario2) =>
    /\ Len(alignment) = 5
    /\ EntriesWhere(IsExtra) = {4, 5}
    /\ alignment[4] = [refWord |-> EXTRA, spokenWord |-> << "x" >>,
                       similarity |-> 0]
    /\ alignment[5] = [refWord |-> EXTRA, spokenWord |-> << "y" >>,
                       similarity |-> 0]

C18_Witness == pc = "done" /\ InScenario2 /\ Len(alignment) = 5

\* ---- C19
\* C19: a reference token and a spoken token with similarity below 30 are
\* never paired; when both are still unmatched at the end, the reference
\* token is a Missing entry and the spoken token an Extra entry, both 0.
C19_ThresholdRejection ==
  Scored =>
    LET unmatched == { j \in 1..n : j \notin matchedSpoken }
        rank(j) == Cardinality({ u \in unmatched : u <= j })
    IN  \A i \in 1..m, j \in 1..n :
          CalculateWordSimilarity(referenceWords[i], transcribedWords[j]) < 30 =>
            /\ \A k \in 1..Len(matches) :
                 ~(matches[k].refIdx = i /\ matches[k].spokenIdx = j)
            /\ (i \notin matchedRef /\ j \notin matchedSpoken) =>
                 /\ alignment[i] = [refWord |-> referenceWords[i],
                                    spokenWord |-> MISSING, similarity |-> 0]
                 /\ alignment[m + rank(j)] = [refWord |-> EXTRA,
                                              spokenWord |-> transcribedWords[j],
                                              similarity |-> 0]

\* Two words each; the first pair matched, the last candidate left is
\* beligge against ide at 13.
C19_Witness ==
  /\ pc = "returned"
  /\ referenceWords = << INDU, BELIGGE >>
  /\ transcribedWords = << INDU, IDE >>
  /\ CalculateWordSimilarity(BELIGGE, IDE) = 13
  /\ matchedRef = {1}
  /\ matchedSpoken = {1}

\* ---- C20
\* C20: the result carries the transcription as it was given, and no step
\* changes either text or, once split, either token sequence.
C20_InputsUntouched ==
  /\ [](pc = "returned" => result.transcription = transcription)
  /\ [][/\ referenceText' = referenceText
        /\ transcription' = transcription
        /\ pc # "split" => /\ referenceWords' = referenceWords
                           /\ transcribedWords' = transcribedWords]_vars

\* Returned for a transcription that normalization changes.
C20_Witness ==
  /\ pc = "returned"
  /\ transcription = HelloText
  /\ NormalizeText(transcription) # transcription
  /\ result.transcription = HelloText

\* ---- C22
\* The accepted matches are the first k entries of the longer list.
IsPrefix(short, long) ==
  /\ Len(short) <= Len(long)
  /\ \A k \in 1..Len(short) : short[k] = long[k]

\* C22: the candidate list holds every pair (i, j) once, in non-increasing
\* similarity; the walk visits it once, one pair further at each step; the
\* pair visited is appended to the matches and its two indices become used if
\* and only if reference index i is unused, spoken index j is unused and the
\* similarity is at least 30, and otherwise nothing changes; no step removes a
\* match or frees an index.
C22_GreedyWalk ==
  /\ [](pc = "walk" =>
          /\ cursor \in 1..(Len(allPairs) + 1)
          /\ Len(allPairs) = m * n
          /\ \A i \in 1..m, j \in 1..n :
               Cardinality({ k \in 1..Len(allPairs) :
                               /\ allPairs[k].refIdx = i
                               /\ allPairs[k].spokenIdx = j }) = 1
          /\ \A k \in 1..(Len(allPairs) - 1) :
               allPairs[k].similarity >= allPairs[k + 1].similarity
          /\ matchedRef = { matches[k].refIdx : k \in 1..Len(matches) }
          /\ matchedSpoken = { matches[k].spokenIdx : k \in 1..Len(matches) })
  /\ [][/\ IsPrefix(matches, matches')
        /\ matchedRef \subseteq matchedRef'
        /\ matchedSpoken \subseteq matchedSpoken'
        /\ (pc = "walk" /\ pc' = "walk") =>
             LET pair == allPairs[cursor]
                 free == /\ pair.refIdx \notin matchedRef
                         /\ pair.spokenIdx \notin matchedSpoken
                         /\ pair.similarity >= 30
             IN  /\ cursor' = cursor + 1
                 /\ allPairs' = allPairs
                 /\ free => /\ matches' = Append(matches, pair)
                            /\ matchedRef' = matchedRef \cup {pair.refIdx}
                            /\ matchedSpoken' =
                                 matchedSpoken \cup {pair.spokenIdx}
                 /\ ~free => /\ matches' = matches
                             /\ matchedRef' = matchedRef
                             /\ matchedSpoken' = matchedSpoken]_vars

\* The walk has accepted a pair and has passed over a pair at or above the
\* threshold because one of its indices was used, and over one below it whose
\* indices were both free.
C22_Witness ==
  /\ pc = "walk"
  /\ Len(matches) >= 1
  /\ \E k \in 1..(cursor - 1) :
       /\ allPairs[k].similarity >= 30
       /\ \A h \in 1..Len(matches) : matches[h] # allPairs[k]
  /\ \E k \in 1..(cursor - 1) :
       /\ allPairs[k].similarity < 30
       /\ allPairs[k].refIdx \notin matchedRef
       /\ allPairs[k].spokenIdx \notin matchedSpoken

\* ---- C23
\* The match that holds reference index i.
MatchOf(i) == matches[FindMatch(matches, i)]

\* C23: pairs of equal similarity stand in the candidate list in the order
\* they were enumerated, reference index first, then spoken index; of two
\* equal reference tokens the later one is matched only if the earlier one
\* is, at no higher similarity, and at the same similarity with a higher
\* spoken index; [w, w] against [w] matches reference index 1 and leaves
\* index 2 Missing; and the alignment returned is the one function of the two
\* token sequences that alignWords computes.
C23_TiesInEnumerationOrder ==
  /\ pc = "walk" =>
       \A k, l \in 1..Len(allPairs) :
         (k < l /\ allPairs[k].similarity = allPairs[l].similarity) =>
           \/ allPairs[k].refIdx < allPairs[l].refIdx
           \/ /\ allPairs[k].refIdx = allPairs[l].refIdx
              /\ allPairs[k].spokenIdx < allPairs[l].spokenIdx
  /\ Returned =>
       /\ \A i, k \in 1..m :
            (i < k /\ referenceWords[i] = referenceWords[k]
               /\ k \in matchedRef) =>
              /\ i \in matchedRef
              /\ MatchOf(i).similarity >= MatchOf(k).similarity
              /\ MatchOf(i).similarity = MatchOf(k).similarity =>
                   MatchOf(i).spokenIdx < MatchOf(k).spokenIdx
       /\ (m = 2 /\ n = 1 /\ referenceWords[1] = referenceWords[2]
             /\ referenceWords[1] = transcribedWords[1]) =>
            /\ matches = << [refIdx |-> 1, spokenIdx |-> 1, similarity |-> 100] >>
            /\ IsMatched(alignment[1])
            /\ IsMissing(alignment[2])
       /\ alignment = AlignWords(referenceWords, transcribedWords)

\* [w, w] against [w] has been aligned.
C23_Witness ==
  /\ Returned
  /\ m = 2
  /\ n = 1
  /\ referenceWords[1] = referenceWords[2]
  /\ referenceWords[1] = transcribedWords[1]
  /\ matchedRef = {1}

\* ---- C24
\* The one-to-one matchings of reference indices to spoken indices that use
\* only pairs at or above the threshold; f[i] is the spoken index matched to
\* i, 0 when i is left unmatched.
Matchings(ref, spoken) ==
  { f \in [1..Len(ref) -> 0..Len(spoken)] :
      /\ \A i, k \in 1..Len(ref) : (i # k /\ f[i] # 0) => f[i] # f[k]
      /\ \A i \in 1..Len(ref) :
           f[i] # 0 =>
             CalculateWordSimilarity(ref[i], spoken[f[i]])
               >= MIN_SIMILARITY_THRESHOLD }

RECURSIVE MatchingTotal(_, _, _, _)
MatchingTotal(ref, spoken, f, k) ==
  IF k = 0 THEN 0
  ELSE MatchingTotal(ref, spoken, f, k - 1)
         + (IF f[k] = 0 THEN 0
            ELSE CalculateWordSimilarity(ref[k], spoken[f[k]]))

\* The greatest total similarity of any such matching.
MaxMatchingTotal(ref, spoken) ==
  LET totals == { MatchingTotal(ref, spoken, f, Len(ref)) :
                    f \in Matchings(ref, spoken) }
  IN  CHOOSE t \in totals : \A u \in totals : t >= u

\* The total similarity of the Matched entries of the alignment.
MatchedTotal == SumSimilarity(alignment, Len(alignment))

RefEntrySimilarity(i) == alignment[i].similarity

SpokenEntrySimilarity(j) ==
  LET holders == { i \in 1..m : /\ IsMatched(alignment[i])
                                /\ \E k \in 1..Len(matches) :
                                     /\ matches[k].refIdx = i
                                     /\ matches[k].spokenIdx = j }
  IN  IF holders = {} THEN 0
      ELSE alignment[CHOOSE i \in holders : TRUE].similarity

\* C29: no reference index i and spoken index j have a similarity of at
\* least 30 that is greater than both the similarity of the entry holding i
\* and that of the entry holding j; so a Missing reference token and an
\* Extra spoken token always have a similarity below 30.
C29_NoBlockingPair ==
  Returned =>
    \A i \in 1..m, j \in 1..n :
      LET s == CalculateWordSimilarity(referenceWords[i], transcribedWords[j])
      IN  /\ s >= 30 =>
                ~(s > RefEntrySimilarity(i) /\ s > SpokenEntrySimilarity(j))
          /\ (IsMissing(alignment[i]) /\ j \notin matchedSpoken) => s < 30

\* A pair at or above the threshold was passed over although it is more
\* similar than the match its reference token got later: its spoken token
\* was held by a match at least as good.
C29_Witness ==
  /\ Returned
  /\ \E i \in 1..m, j \in 1..n :
       LET s == CalculateWordSimilarity(referenceWords[i], transcribedWords[j])
       IN  /\ s >= 30
           /\ IsMatched(alignment[i])
           /\ s > RefEntrySimilarity(i)
           /\ SpokenEntrySimilarity(j) >= s

\* ---- C28
\* The spoken tokens are the reference tokens in some order.
IsReordering ==
  /\ m = n
  /\ m > 0
  /\ \A k \in 1..m :
       Cardinality({ i \in 1..m : referenceWords[i] = referenceWords[k] })
         = Cardinality({ j \in 1..n : transcribedWords[j] = referenceWords[k] })

C30_SentinelsUnambiguous ==
  pc = "returned" =>
    /\ \A k \in 1..Len(result.wordScores) :
         /\ (result.wordScores[k].word = EXTRA) <=> (k > m)
         /\ result.wordScores[k].word = EXTRA =>
              result.wordScores[k].score = 0
         /\ (result.wordScores[k].transcribedWord = MISSING)
              <=> (k <= m /\ k \notin matchedRef)
    /\ \A i \in 1..m : referenceWords[i] \notin {EXTRA, MISSING}
    /\ \A j \in 1..n : transcribedWords[j] \notin {EXTRA, MISSING}

\* ---- C27
\* The places a to b hold a balanced span: an opening brace at a, its
\* closing brace at b.
Depth(t, a, p) ==
  Cardinality({ q \in a..p : t[q] = "{" })
    - Cardinality({ q \in a..p : t[q] = "}" })

IsBalancedSpan(t, a, b) ==
  /\ t[a] = "{"
  /\ Depth(t, a, b) = 0
  /\ \A p \in a..(b - 1) : Depth(t, a, p) > 0

\* The balanced span that starts first, << >> when there is none.
FirstBalancedSpan(t) ==
  LET spans == { ab \in (1..Len(t)) \X (1..Len(t)) :
                   ab[1] < ab[2] /\ IsBalancedSpan(t, ab[1], ab[2]) }
      firstSpan == CHOOSE ab \in spans : \A cd \in spans : ab[1] <= cd[1]
  IN  IF spans = {} THEN << >> ELSE SubSeq(t, firstSpan[1], firstSpan[2])

\* C27: the caller parses the first balanced span of the reply: it throws
\* exactly when the reply has no balanced span or that span is not a JSON
\* object or not one the schema accepts, and otherwise returns that object,
\* whatever follows it.
C27_FirstBalancedSpan ==
  pc = "parse_done" =>
    LET span == FirstBalancedSpan(reply)
    IN  /\ (parsed.error # "")
             <=> (span = << >> \/ ~JsonParses(span) \/ ~SchemaAccepts(span))
        /\ parsed.error = "" => parsed.data = span

\* ---------------------------------------------------------------------
\* The scoring result a request holds: the locals of its handler while it
\* waits for the tips, the response on its way, the result on the page.
ScoredResults(r) ==
  (IF route[r].stage = "tips"
     THEN { [transcription |-> route[r].transcription,
             wordScores |-> route[r].levenshteinResult.wordScores,
             overallScore |-> route[r].levenshteinResult.overallScore] }
     ELSE {})
  \cup
  (IF route[r].response.status = 200
     THEN { [transcription |-> route[r].response.transcription,
             wordScores |-> route[r].response.wordScores,
             overallScore |-> route[r].response.overallScore] }
     ELSE {})
  \cup
  (IF client[r].analysisResult.status = 200
     THEN { [transcription |-> client[r].analysisResult.transcription,
             wordScores |-> client[r].analysisResult.wordScores,
             overallScore |-> client[r].analysisResult.overallScore] }
     ELSE {})

LowReferenceEntries(ws, reference) ==
  LET refLen == Len(SplitIntoWords(reference))
      low == { k \in 1..Len(ws) : k <= refLen /\ ws[k].score < 70 }
      nth(i) == CHOOSE k \in low : Cardinality({ h \in low : h <= k }) = i
  IN  [i \in 1..Cardinality(low) |->
         [word |-> ws[nth(i)].word, spokenWord |-> ws[nth(i)].transcribedWord,
          score |-> ws[nth(i)].score]]

\* The analysis of request r has been scored: the word scores it holds, with
\* the tips and their token count once the response is made.
ScoredAnalyses(r) ==
  (IF route[r].stage = "tips"
     THEN { [wordScores |-> route[r].levenshteinResult.wordScores,
             answered |-> FALSE, tips |-> << >>, tipsTokens |-> 0] }
     ELSE {})
  \cup
  (IF route[r].response.status = 200
     THEN { [wordScores |-> route[r].response.wordScores,
             answered |-> TRUE, tips |-> route[r].response.tips,
             tipsTokens |-> route[r].response.tipsTokens] }
     ELSE {})
  \cup
  (IF client[r].analysisResult.status = 200
     THEN { [wordScores |-> client[r].analysisResult.wordScores,
             answered |-> TRUE, tips |-> client[r].analysisResult.tips,
             tipsTokens |-> client[r].analysisResult.tipsTokens] }
     ELSE {})

\* C25: in one analysis the tips are asked for at most once, in one batch,
\* and only after the transcription has been made and scored. They are asked
\* for exactly when some Matched or Missing entry scores below 70, and the
\* batch holds exactly those entries: no Extra entry and no entry that
\* scores 70 or more. When there is no such entry the tips of the response
\* are empty and their token usage is zero.
C25_OneBatchOfLowEntries ==
  \A r \in Requests :
    LET batches == collaborators.calls[r].tips
    IN  /\ Len(batches) <= 1
        /\ Len(batches) = 1 =>
             /\ collaborators.calls[r].transcribe = 1
             /\ collaborators.calls[r].failed \notin {"convert", "transcribe"}
             /\ ScoredAnalyses(r) # {} \/ collaborators.calls[r].failed = "tips"
        /\ \A a \in ScoredAnalyses(r) :
             LET low == LowReferenceEntries(
                          a.wordScores,
                          client[r].currentSentence.originalScript)
             IN  /\ Len(low) > 0 <=> Len(batches) = 1
                 /\ Len(batches) = 1 => batches[1] = low
                 /\ (a.answered /\ Len(low) = 0) =>
                      a.tips = << >> /\ a.tipsTokens = 0

\* ---------------------------------------------------------------------
\* C26: nothing is tried again without the user. Within one request the
\* audio conversion, the transcription and the tips are each asked for at
\* most once. When one of them fails (the conversion, the upstream call, a
\* reply without JSON, a reply that does not parse or does not validate) no
\* later stage runs and the request ends with an error response. The page
\* sends one request for one press of Stop, shows the failure and keeps no
\* result.
C26_NoAutomaticRetry ==
  \A r \in Requests :
    LET c == collaborators.calls[r]
    IN  /\ c.convert <= 1
        /\ c.transcribe <= 1
        /\ Len(c.tips) <= 1
        /\ c.transcribe <= c.convert
        /\ c.failed = "convert" => c.transcribe = 0 /\ c.tips = << >>
        /\ c.failed = "transcribe" => c.tips = << >>
        /\ c.failed # "" =>
             \/ /\ route[r].stage = "responded"
                /\ route[r].response.status = 500
                /\ route[r].response.error = "Failed to analyze pronunciation"
                /\ route[r].response.details # ""
                /\ client[r].stage = "waiting"
             \/ /\ route[r].stage = "idle"
                /\ client[r].stage = "shown"
                /\ client[r].toast = "Error"
        /\ client[r].fetches <= 1
        /\ client[r].toast = "Error" =>
             /\ client[r].stage = "shown"
             /\ ~client[r].isProcessing
             /\ client[r].analysisResult = NoResponse
             /\ route[r].stage = "idle"

\* One request has failed in the conversion and another in the tips, and
\* both pages show the error.
C26_Witness ==
  \E r, o \in Requests :
    /\ collaborators.calls[r].failed = "convert"
    /\ collaborators.calls[o].failed = "tips"
    /\ Len(collaborators.calls[o].tips) = 1
    /\ client[r].toast = "Error"
    /\ client[o].toast = "Error"
    /\ client[r].fetches = 1
    /\ client[o].fetches = 1

====
